---- MODULE Spec2Model ----
(***************************************************************************)
(* Curriculum assembly of curriculum/getChallenges.js: the comment         *)
(* dictionary (createCommentMap), the directory-name parsing               *)
(* (superBlockInfo), and the walker-driven build (getChallengesForLang,    *)
(* buildCurriculum, createChallenge).                                      *)
(*                                                                         *)
(* JavaScript strings are sequences of one-character strings, so that      *)
(* split, join, parseInt and path.extname are computed, not assumed.       *)
(***************************************************************************)
EXTENDS Integers, Sequences, FiniteSets, TLC

VARIABLES
  \* superBlockInfo applied to one directory name
  infoName, infoChild, infoOut,
  \* createCommentMap applied to one dictionaries directory
  dictEnglish, dictLangs, dicts, commentMap,
  \* the file system and the environment of one build
  entries, metaFlag, engMissing, broken, lang, showUpcoming, audited,
  \* getChallengesForLang: the walker, the promise and its closure
  pos, ended, running, resolves, status, curriculum, tasks,
  \* the curriculum an earlier call resolved with, on the same tree
  prev

infoVars == <<infoName, infoChild, infoOut>>
dictVars == <<dictEnglish, dictLangs, dicts, commentMap>>
inputVars == <<entries, metaFlag, engMissing, broken, lang, showUpcoming, audited>>
runVars == <<pos, ended, running, resolves, status, curriculum, tasks>>
vars == <<infoVars, dictVars, inputVars, runVars, prev>>

----------------------------------------------------------------------------
\* Bounds of the model.

\* longest directory name superBlockInfo is applied to
MaxNameLen == 4
\* most entries below the language root in one tree
MaxEntries == 4
\* most comments in the English canonical list
MaxComments == 2

----------------------------------------------------------------------------
\* Strings.

Digits == {"0", "1", "2", "3", "4", "5", "6", "7", "8", "9"}

DigitVal(c) ==
  CASE c = "0" -> 0 [] c = "1" -> 1 [] c = "2" -> 2 [] c = "3" -> 3
    [] c = "4" -> 4 [] c = "5" -> 5 [] c = "6" -> 6 [] c = "7" -> 7
    [] c = "8" -> 8 [] c = "9" -> 9

\* path.sep
Sep == "/"

\* s.indexOf(c): the first position of c in s, 0 when there is none
RECURSIVE IndexOf(_, _)
IndexOf(s, c) ==
  IF s = <<>> THEN 0
  ELSE IF Head(s) = c THEN 1
  ELSE LET r == IndexOf(Tail(s), c) IN IF r = 0 THEN 0 ELSE r + 1

\* s.split(c): the pieces between the occurrences of c; never empty
RECURSIVE Split(_, _)
Split(s, c) ==
  LET i == IndexOf(s, c)
  IN IF i = 0 THEN <<s>>
     ELSE <<SubSeq(s, 1, i - 1)>> \o Split(SubSeq(s, i + 1, Len(s)), c)

\* parts.join(c)
RECURSIVE Join(_, _)
Join(parts, c) ==
  IF parts = <<>> THEN <<>>
  ELSE IF Len(parts) = 1 THEN parts[1]
  ELSE parts[1] \o <<c>> \o Join(Tail(parts), c)

\* the value of the longest run of decimal digits s starts with
RECURSIVE DigitRun(_, _)
DigitRun(s, acc) ==
  IF s = <<>> \/ Head(s) \notin Digits THEN acc
  ELSE DigitRun(Tail(s), 10 * acc + DigitVal(Head(s)))

RECURSIVE TrimStart(_)
TrimStart(s) ==
  IF s # <<>> /\ Head(s) = " " THEN TrimStart(Tail(s)) ELSE s

\* parseInt(s, 10): leading white space, an optional sign, then digits;
\* NaN when no digit follows
parseInt(s) ==
  LET t == TrimStart(s)
      signed == t # <<>> /\ Head(t) \in {"+", "-"}
      u == IF signed THEN Tail(t) ELSE t
      mag == DigitRun(u, 0)
  IN IF u = <<>> \/ Head(u) \notin Digits
       THEN [nan |-> TRUE, val |-> 0]
       ELSE [nan |-> FALSE, val |-> IF signed /\ Head(t) = "-" THEN 0 - mag ELSE mag]

\* s.lastIndexOf(c)
RECURSIVE LastIndexOf(_, _)
LastIndexOf(s, c) ==
  IF s = <<>> THEN 0
  ELSE IF s[Len(s)] = c THEN Len(s)
  ELSE LastIndexOf(SubSeq(s, 1, Len(s) - 1), c)

\* path.basename
basename(p) == LET parts == Split(p, Sep) IN parts[Len(parts)]

\* path.extname: from the last dot of the base name to its end, the dot
\* included; empty when there is no dot or the base name starts with its
\* only dot
extname(p) ==
  LET b == basename(p)
      i == LastIndexOf(b, ".")
  IN IF i <= 1 THEN <<>> ELSE SubSeq(b, i, Len(b))

----------------------------------------------------------------------------
\* superBlockInfo, superBlockInfoFromPath, getBlockNameFromPath.

\* superBlockInfo keeping only the part after the first hyphen
superBlockInfoSecondPart(fileName) ==
  LET parts == Split(fileName, "-")
      order == parseInt(parts[1])
  IN IF order.nan
       THEN [order |-> 0, name |-> fileName]
       ELSE [order |-> order.val,
             name |-> IF Len(parts) >= 2 THEN parts[2] ELSE <<>>]

superBlockInfo(fileName) ==
  LET parts == Split(fileName, "-")
      maybeOrder == parts[1]
      superBlock == Tail(parts)
      order == parseInt(maybeOrder)
  IN IF order.nan
       THEN [order |-> 0, name |-> fileName]
       ELSE [order |-> order.val, name |-> Join(superBlock, "-")]

superBlockInfoFromPath(filePath) ==
  LET maybeSuper == Split(filePath, Sep)[1]
  IN superBlockInfo(maybeSuper)

\* undefined (a path of one component) is the empty name, which no
\* directory has
getBlockNameFromPath(filePath) ==
  LET parts == Split(filePath, Sep)
  IN IF Len(parts) >= 2 THEN parts[2] ELSE <<>>

----------------------------------------------------------------------------
\* superBlockInfo applied to a directory name, and superBlockInfoFromPath to
\* a path below that directory.

NameChars == {"0", "1", "8", "a", "-"}

\* "08-coding-interview-prep"
NameCodingInterviewPrep ==
  <<"0", "8", "-", "c", "o", "d", "i", "n", "g", "-", "i", "n", "t", "e",
    "r", "v", "i", "e", "w", "-", "p", "r", "e", "p">>

\* "extra"
NameExtra == <<"e", "x", "t", "r", "a">>

\* every string over NameChars of length 1..n
RECURSIVE StringsUpTo(_)
StringsUpTo(n) ==
  IF n = 0 THEN {}
  ELSE LET shorter == StringsUpTo(n - 1)
       IN {<<c>> : c \in NameChars}
          \cup shorter
          \cup {s \o <<c>> : s \in shorter, c \in NameChars}

DirNames == StringsUpTo(MaxNameLen) \cup {NameCodingInterviewPrep, NameExtra}

\* relative paths below a superblock directory: a block, a leaf of a block
ChildPaths == {<<"b">>, <<"b", Sep, "x", ".", "m", "d">>}

NoInfo == [done |-> FALSE, key |-> <<>>, order |-> 0, below |-> <<>>]

InfoIdle == infoName = <<>> /\ infoChild = <<>> /\ infoOut = NoInfo

InfoInit ==
  /\ infoName \in DirNames
  /\ infoChild \in ChildPaths
  /\ infoOut = NoInfo

\* the key and order buildCurriculum registers the depth-1 directory under,
\* and the key it looks an entry below that directory up with
InfoApply ==
  /\ ~infoOut.done
  /\ infoName # <<>>
  /\ LET info == superBlockInfo(infoName)
          below == superBlockInfoFromPath(infoName \o <<Sep>> \o infoChild)
     IN infoOut' = [done |-> TRUE, key |-> info.name, order |-> info.order,
                    below |-> below.name]
  /\ UNCHANGED <<infoName, infoChild, dictVars, inputVars, runVars, prev>>

----------------------------------------------------------------------------
\* createCommentMap and getTranslationEntry.
\*
\* dictLangs is what readdirSync lists under the dictionaries directory,
\* dicts[l] the comments module of language l (a sequence of {id, text}),
\* dictEnglish the English module: COMMENTS_TO_TRANSLATE (translate, a
\* sequence of {id, text}) and COMMENTS_TO_NOT_TRANSLATE (keep, a sequence
\* of texts).

EmptyMap == [k \in {} |-> <<>>]

\* {...acc, [k]: v}
Spread(acc, k, v) == (k :> v) @@ acc

\* arr.find(({ id }) => engId === id): the position of the first match,
\* 0 for undefined
RECURSIVE FindId(_, _)
FindId(arr, engId) ==
  IF arr = <<>> THEN 0
  ELSE IF Head(arr).id = engId THEN 1
  ELSE LET r == FindId(Tail(arr), engId) IN IF r = 0 THEN 0 ELSE r + 1

NoError == [text |-> "", id |-> 0]

\* getTranslationEntry that leaves out a language with no entry
RECURSIVE getTranslationEntrySkipping(_, _, _, _)
getTranslationEntrySkipping(ds, langs, engId, text) ==
  IF langs = <<>> THEN [threw |-> FALSE, value |-> EmptyMap, error |-> NoError]
  ELSE LET l == langs[Len(langs)]
           acc == getTranslationEntrySkipping(ds, SubSeq(langs, 1, Len(langs) - 1),
                                              engId, text)
           i == FindId(ds[l], engId)
       IN IF i # 0
            THEN [acc EXCEPT !.value = Spread(acc.value, l, ds[l][i].text)]
            ELSE acc

\* the reduce over Object.keys(dicts), in the order langs lists them; the
\* throw ends the reduce
RECURSIVE getTranslationEntry(_, _, _, _)
getTranslationEntry(ds, langs, engId, text) ==
  IF langs = <<>> THEN [threw |-> FALSE, value |-> EmptyMap, error |-> NoError]
  ELSE LET l == langs[Len(langs)]
           acc == getTranslationEntry(ds, SubSeq(langs, 1, Len(langs) - 1),
                                      engId, text)
           i == FindId(ds[l], engId)
       IN IF acc.threw THEN acc
          ELSE IF i # 0
            THEN [acc EXCEPT !.value = Spread(acc.value, l, ds[l][i].text)]
            ELSE [threw |-> TRUE, value |-> EmptyMap,
                  error |-> [text |-> text, id |-> engId]]

\* readdirSync(dictionariesDir).filter(x => x !== 'english')
RECURSIVE FilterEnglish(_)
FilterEnglish(listing) ==
  IF listing = <<>> THEN <<>>
  ELSE IF Head(listing) = "english" THEN FilterEnglish(Tail(listing))
  ELSE <<Head(listing)>> \o FilterEnglish(Tail(listing))

\* the reduce over COMMENTS_TO_TRANSLATE
RECURSIVE translatedCommentMap(_, _, _)
translatedCommentMap(ds, langs, toTranslate) ==
  IF toTranslate = <<>> THEN [threw |-> FALSE, value |-> EmptyMap, error |-> NoError]
  ELSE LET c == toTranslate[Len(toTranslate)]
           acc == translatedCommentMap(ds, langs,
                                       SubSeq(toTranslate, 1, Len(toTranslate) - 1))
           entry == getTranslationEntry(ds, langs, c.id, c.text)
       IN IF acc.threw THEN acc
          ELSE IF entry.threw THEN entry
          ELSE [acc EXCEPT !.value = Spread(acc.value, c.text, entry.value)]

\* the reduce over COMMENTS_TO_NOT_TRANSLATE
RECURSIVE untranslatableCommentMap(_, _)
untranslatableCommentMap(langs, toKeep) ==
  IF toKeep = <<>> THEN EmptyMap
  ELSE LET text == toKeep[Len(toKeep)]
           acc == untranslatableCommentMap(langs, SubSeq(toKeep, 1, Len(toKeep) - 1))
           englishEntry == [l \in {langs[i] : i \in DOMAIN langs} |-> text]
       IN Spread(acc, text, englishEntry)

createCommentMap(listing, ds, english) ==
  LET languages == FilterEnglish(listing)
      translated == translatedCommentMap(ds, languages, english.translate)
      untranslatable == untranslatableCommentMap(languages, english.keep)
  IN IF translated.threw
       THEN [state |-> "threw", map |-> EmptyMap, error |-> translated.error]
       ELSE [state |-> "returned", map |-> untranslatable @@ translated.value,
             error |-> NoError]

\* the inputs of createCommentMap
CommentIds == {1, 2}
EnglishTexts == {"// one", "// two"}
KeptTexts == {"// keep", "// one"}
TranslatedTexts == {"// uno", "// dos"}
DictListings ==
  {<<"english">>, <<"english", "espanol">>, <<"chinese", "english", "espanol">>}

\* the Chinese module: empty, one entry, or both entries
ChineseDicts ==
  { <<>>,
    <<[id |-> 1, text |-> "// yi"]>>,
    <<[id |-> 2, text |-> "// er"], [id |-> 1, text |-> "// yi"]>> }

RECURSIVE SeqsUpTo(_, _)
SeqsUpTo(S, n) ==
  IF n = 0 THEN {<<>>}
  ELSE LET shorter == SeqsUpTo(S, n - 1)
       IN shorter \cup {Append(s, x) : s \in shorter, x \in S}

Range(s) == {s[i] : i \in DOMAIN s}

NoCommentMap == [state |-> "none", map |-> EmptyMap, error |-> NoError]

DictIdle ==
  /\ dictEnglish = [translate |-> <<>>, keep |-> <<>>]
  /\ dictLangs = <<>>
  /\ dicts = EmptyMap
  /\ commentMap = NoCommentMap

DictInit ==
  /\ dictLangs \in DictListings
  /\ \E es \in SeqsUpTo([id : CommentIds, text : TranslatedTexts], MaxComments),
        zh \in ChineseDicts :
        dicts = [l \in Range(FilterEnglish(dictLangs)) |->
                   IF l = "chinese" THEN zh ELSE es]
  /\ \E t \in SeqsUpTo([id : CommentIds, text : EnglishTexts], MaxComments),
        k \in SeqsUpTo(KeptTexts, 1) :
        dictEnglish = [translate |-> t, keep |-> k]
  /\ commentMap = NoCommentMap

\* COMMENT_TRANSLATIONS = createCommentMap(...), at module load
DictApply ==
  /\ commentMap.state = "none"
  /\ dictLangs # <<>>
  /\ commentMap' = createCommentMap(dictLangs, dicts, dictEnglish)
  /\ UNCHANGED <<dictEnglish, dictLangs, dicts, infoVars, inputVars, runVars, prev>>

----------------------------------------------------------------------------
\* The challenges directory of one language, as readdirp-walk reports it:
\* each entry with its name, depth, path relative to the language root and
\* stat, a directory before its own entries.

Path2(a, b) == a \o <<Sep>> \o b
Path3(a, b, c) == a \o <<Sep>> \o b \o <<Sep>> \o c

Entry(p, dir) ==
  [name |-> basename(p), depth |-> Len(Split(p, Sep)), path |-> p, isDir |-> dir]

\* "01-a", "ex"
Dir01a == <<"0", "1", "-", "a">>
DirEx == <<"e", "x">>
\* "b1", "b2"
DirB1 == <<"b", "1">>
DirB2 == <<"b", "2">>
\* "r.md", "n.md", "x.md", "y.md", "c.markdown", "meta.json"
FileR == <<"r", ".", "m", "d">>
FileN == <<"n", ".", "m", "d">>
FileX == <<"x", ".", "m", "d">>
FileY == <<"y", ".", "m", "d">>
FileC == <<"c", ".", "m", "a", "r", "k", "d", "o", "w", "n">>
\* "m.md" has no English file, "k.md" an English file no parser accepts,
\* "t.md" a translated file no parser accepts
FileM == <<"m", ".", "m", "d">>
FileK == <<"k", ".", "m", "d">>
FileT == <<"t", ".", "m", "d">>
FileMeta == <<"m", "e", "t", "a", ".", "j", "s", "o", "n">>
\* '.DS_Store'
FileDSStore == <<".", "D", "S", "_", "S", "t", "o", "r", "e">>

\* every entry a tree of the model may hold, in the walker's order
Universe ==
  << Entry(Dir01a, TRUE),
     Entry(DirEx, TRUE),
     Entry(FileR, FALSE),
     Entry(Path2(Dir01a, DirB1), TRUE),
     Entry(Path2(Dir01a, DirB2), TRUE),
     Entry(Path2(Dir01a, FileN), FALSE),
     Entry(Path2(DirEx, DirB1), TRUE),
     Entry(Path3(Dir01a, DirB1, FileX), FALSE),
     Entry(Path3(Dir01a, DirB1, FileC), FALSE),
     Entry(Path3(Dir01a, DirB1, FileMeta), FALSE),
     Entry(Path3(Dir01a, DirB1, FileM), FALSE),
     Entry(Path3(Dir01a, DirB1, FileK), FALSE),
     Entry(Path3(Dir01a, DirB1, FileT), FALSE),
     Entry(Path3(Dir01a, DirB2, FileY), FALSE) >>

\* the directory an entry lies in; empty for an entry of the root
ParentPath(p) ==
  LET parts == Split(p, Sep) IN Join(SubSeq(parts, 1, Len(parts) - 1), Sep)

\* a tree holds the directory of each of its entries
ParentClosed(ix) ==
  \A i \in ix :
    Universe[i].depth > 1 =>
      \E j \in ix : Universe[j].isDir /\ Universe[j].path = ParentPath(Universe[i].path)

RECURSIVE Pick(_, _)
Pick(ix, from) ==
  IF from > Len(Universe) THEN <<>>
  ELSE (IF from \in ix THEN <<Universe[from]>> ELSE <<>>) \o Pick(ix, from + 1)

Trees ==
  {Pick(ix, 1) : ix \in {jx \in SUBSET (1..Len(Universe)) :
                           /\ jx # {}
                           /\ Cardinality(jx) <= MaxEntries
                           /\ ParentClosed(jx)}}

SkippedNames == {FileMeta, FileDSStore}

\* the entries buildCurriculum treats as challenge files
IsLeaf(file) ==
  /\ ~(file.depth \in {1, 2} /\ file.isDir)
  /\ file.name \notin SkippedNames

Leaves(tree) == {tree[i].path : i \in {j \in DOMAIN tree : IsLeaf(tree[j])}}
BlockNames(tree) ==
  {tree[i].name : i \in {j \in DOMAIN tree : tree[j].depth = 2 /\ tree[j].isDir}}

\* ./utils supportedLangs
supportedLangs == {"english", "espanol", "chinese"}
Langs == {"english", "espanol", "klingon"}

\* process.env.SHOW_UPCOMING_CHANGES
Toggles == {"true", "unset"}

\* isUpcomingChange of a block's meta.json: a boolean, or absent
MetaFlags == {"true", "false", "absent"}

----------------------------------------------------------------------------
\* getChallengesForLang, buildCurriculum, createChallenge.

NoFailure == [kind |-> "none", path |-> <<>>]

\* a buildCurriculum call: where it stands, what it did with its entry, the
\* parser calls it made and the error it threw
NoTask == [pc |-> "unstarted", outcome |-> "none", calls |-> <<>>, error |-> NoFailure]

Fulfilled(outcome) == [NoTask EXCEPT !.pc = "fulfilled", !.outcome = outcome]
Threw(task, kind, p) ==
  [task EXCEPT !.pc = "rejected", !.error = [kind |-> kind, path |-> p]]

\* the counter started without the unit that stands for 'end'
InitialRunningWithoutEnd == 1 - 1

\* let running = 1
InitialRunning == 1

\* what the runtime does with the rejection of a promise that has no
\* rejection handler: a warning only, or the end of the process
UnhandledRejections == {"warn", "exit"}

\* ../utils/is-audited
isAuditedCert(l, superBlock) == superBlock \in audited

\* the test that adds every block
AddsBlockAlways(isUpcomingChange, toggle) == TRUE

\* !isUpcomingChange || process.env.SHOW_UPCOMING_CHANGES === 'true'
AddsBlock(isUpcomingChange, toggle) ==
  isUpcomingChange # "true" \/ toggle = "true"

\* path.extname(filePath) === 'markdown'
isCert(filePath) == extname(filePath) = <<"m", "a", "r", "k", "d", "o", "w", "n">>

\* createChallenge from useEnglish on, up to its await of the first parser
\* call
StartParse(file) ==
  LET superBlock == superBlockInfoFromPath(file.path).name
      useEnglish == lang = "english" \/ ~isAuditedCert(lang, superBlock)
      parser == IF isCert(file.path) THEN "parseMarkdown" ELSE "parseMD"
  IN IF useEnglish
       THEN [NoTask EXCEPT !.pc = "parsing",
               !.calls = <<[parser |-> parser, dir |-> "english", by |-> "createChallenge"]>>]
       ELSE [NoTask EXCEPT !.pc = "parsingEnglish",
               !.calls = <<[parser |-> parser, dir |-> "english", by |-> "parseTranslation"]>>]

\* createChallenge up to its first await
createChallengeStart(file) ==
  IF lang \notin supportedLangs THEN Threw(NoTask, "language", file.path)
  ELSE IF lang # "english" THEN [NoTask EXCEPT !.pc = "hasEnglishSource"]
  ELSE StartParse(file)

\* challengeBlock.challenges = [challenge]
AppendedAlone(challenges, challenge) == <<challenge>>

\* challengeBlock.challenges = [...challengeBlock.challenges, challenge]
Appended(challenges, challenge) == Append(challenges, challenge)

\* buildCurriculum up to its first await: the task, the curriculum, and
\* whether process.exit was called
buildCurriculumStart(file) ==
  IF file.depth = 1 /\ file.isDir THEN
    LET info == superBlockInfo(file.name)
    IN [task |-> Fulfilled("superBlock"), exit |-> FALSE,
        curriculum |-> Spread(curriculum, info.name,
                              [superBlock |-> info.name, order |-> info.order,
                               blocks |-> EmptyMap])]
  ELSE IF file.depth = 2 /\ file.isDir THEN
    LET blockName == getBlockNameFromPath(file.path)
        isUpcomingChange == metaFlag[blockName]
        superBlock == superBlockInfoFromPath(file.path).name
        blockInfo == [meta |-> [name |-> blockName, isUpcomingChange |-> isUpcomingChange],
                      challenges |-> <<>>]
    IN IF isUpcomingChange \notin {"true", "false"}
         THEN [task |-> Threw(NoTask, "meta", file.path), exit |-> FALSE,
               curriculum |-> curriculum]
       ELSE IF ~AddsBlock(isUpcomingChange, showUpcoming)
         THEN [task |-> Fulfilled("excluded"), exit |-> FALSE, curriculum |-> curriculum]
       ELSE IF superBlock \notin DOMAIN curriculum
         THEN [task |-> Threw(NoTask, "typeError", file.path), exit |-> FALSE,
               curriculum |-> curriculum]
       ELSE [task |-> Fulfilled("block"), exit |-> FALSE,
             curriculum |-> [curriculum EXCEPT ![superBlock].blocks =
                               Spread(@, file.name, blockInfo)]]
  ELSE IF file.name \in SkippedNames THEN
    [task |-> Fulfilled("ignored"), exit |-> FALSE, curriculum |-> curriculum]
  ELSE
    LET block == getBlockNameFromPath(file.path)
        superBlock == superBlockInfoFromPath(file.path).name
    IN IF superBlock \notin DOMAIN curriculum
         THEN [task |-> [NoTask EXCEPT !.pc = "exit"], exit |-> TRUE,
               curriculum |-> curriculum]
       ELSE IF block \notin DOMAIN curriculum[superBlock].blocks
         THEN [task |-> Fulfilled("skipped"), exit |-> FALSE, curriculum |-> curriculum]
       ELSE [task |-> createChallengeStart(file), exit |-> FALSE,
             curriculum |-> curriculum]

\* done(): the counter, the promise and the number of resolve calls after it
done(r) ==
  [running |-> r - 1,
   status |-> IF r - 1 = 0 THEN "resolved" ELSE status,
   resolves |-> IF r - 1 = 0 THEN resolves + 1 ELSE resolves]

RunInit ==
  /\ pos = 0
  /\ ended = FALSE
  /\ running = InitialRunning
  /\ resolves = 0
  /\ status = "pending"
  /\ curriculum = EmptyMap
  /\ tasks = [i \in DOMAIN entries |-> NoTask]

NoPrev == [set |-> FALSE, curriculum |-> EmptyMap]

BuildIdle ==
  /\ entries = <<>>
  /\ metaFlag = EmptyMap
  /\ engMissing = {}
  /\ broken = {}
  /\ lang = "english"
  /\ showUpcoming = "unset"
  /\ audited = {}
  /\ RunInit
  /\ prev = NoPrev

SuperBlockNames(tree) ==
  {superBlockInfo(tree[i].name).name :
     i \in {j \in DOMAIN tree : tree[j].depth = 1 /\ tree[j].isDir}}

\* the files a parser may be given: a leaf below the English root or below
\* the root of the language built
ParsedFiles(tree, l) ==
  {[dir |-> d, path |-> p] : d \in {"english", l}, p \in Leaves(tree)}

\* a tree of at most MaxEntries entries of Universe, a language, the toggle
\* and the metas. The meta of b1 is not an upcoming change, that of b2 is
\* any of MetaFlags; the toggle, read only for an upcoming change, is unset
\* when no block is one; isAuditedCert, read only for a supported language
\* other than English, holds of no superblock otherwise.
BuildInit ==
  /\ entries \in Trees
  /\ metaFlag \in [BlockNames(entries) -> MetaFlags]
  /\ DirB1 \in DOMAIN metaFlag => metaFlag[DirB1] = "false"
  /\ lang \in Langs
  /\ showUpcoming \in Toggles
  /\ (\A b \in DOMAIN metaFlag : metaFlag[b] # "true") => showUpcoming = "unset"
  /\ engMissing = {p \in Leaves(entries) : basename(p) = FileM}
  /\ broken = {f \in ParsedFiles(entries, lang) :
                 \/ f.dir = "english" /\ basename(f.path) = FileK
                 \/ f.dir # "english" /\ basename(f.path) = FileT}
  /\ audited \in SUBSET (IF lang \in supportedLangs \ {"english"}
                            THEN SuperBlockNames(entries) ELSE {})
  /\ RunInit
  /\ prev = NoPrev

\* .on('data', file => { running++; buildCurriculum(...).then(done); })
Data ==
  /\ status # "exited"
  /\ ~ended
  /\ pos < Len(entries)
  /\ LET i == pos + 1
         out == buildCurriculumStart(entries[i])
     IN \E unhandled \in UnhandledRejections :
          /\ pos' = i
          /\ running' = running + 1
          /\ curriculum' = out.curriculum
          /\ tasks' = [tasks EXCEPT ![i] = out.task]
          /\ status' = IF out.exit \/ (out.task.pc = "rejected" /\ unhandled = "exit")
                          THEN "exited" ELSE status
  /\ UNCHANGED <<ended, resolves, inputVars, prev, infoVars, dictVars>>

\* .on('end', done)
End ==
  /\ status # "exited"
  /\ ~ended
  /\ pos = Len(entries)
  /\ entries # <<>>
  /\ ended' = TRUE
  /\ running' = done(running).running
  /\ status' = done(running).status
  /\ resolves' = done(running).resolves
  /\ UNCHANGED <<pos, curriculum, tasks, inputVars, prev, infoVars, dictVars>>

\* await hasEnglishSource(filePath) returns in createChallenge
HasEnglishSource(i) ==
  /\ status # "exited"
  /\ tasks[i].pc = "hasEnglishSource"
  /\ LET file == entries[i]
         task == IF file.path \in engMissing
                   THEN Threw(tasks[i], "missingEnglish", file.path)
                   ELSE StartParse(file)
     IN \E unhandled \in UnhandledRejections :
          /\ tasks' = [tasks EXCEPT ![i] = task]
          /\ status' = IF task.pc = "rejected" /\ unhandled = "exit"
                          THEN "exited" ELSE status
  /\ UNCHANGED <<pos, ended, running, resolves, curriculum, inputVars, prev,
                 infoVars, dictVars>>

\* a parser call returns: in parseTranslation the second parse follows the
\* first; after the last, createChallenge returns and buildCurriculum adds
\* the challenge to the block it looked up
Parsed(i) ==
  /\ status # "exited"
  /\ tasks[i].pc \in {"parsing", "parsingEnglish", "parsingTranslated"}
  /\ LET file == entries[i]
         call == tasks[i].calls[Len(tasks[i].calls)]
         failed == [dir |-> call.dir, path |-> file.path] \in broken
         block == getBlockNameFromPath(file.path)
         superBlock == superBlockInfoFromPath(file.path).name
         challenge == [file |-> file.path, superBlock |-> superBlock, block |-> block]
         task == IF failed THEN Threw(tasks[i], "parse", file.path)
                 ELSE IF tasks[i].pc = "parsingEnglish"
                   THEN [tasks[i] EXCEPT !.pc = "parsingTranslated",
                           !.calls = Append(@, [parser |-> call.parser, dir |-> lang,
                                                 by |-> "parseTranslation"])]
                 ELSE [tasks[i] EXCEPT !.pc = "fulfilled", !.outcome = "challenge"]
     IN \E unhandled \in UnhandledRejections :
          /\ tasks' = [tasks EXCEPT ![i] = task]
          /\ curriculum' =
               IF task.pc = "fulfilled"
                 THEN [curriculum EXCEPT ![superBlock].blocks[block].challenges =
                         Appended(@, challenge)]
                 ELSE curriculum
          /\ status' = IF task.pc = "rejected" /\ unhandled = "exit"
                          THEN "exited" ELSE status
  /\ UNCHANGED <<pos, ended, running, resolves, inputVars, prev, infoVars, dictVars>>

\* buildCurriculum(...).then(done): done runs for a fulfilled task
ThenDone(i) ==
  /\ status # "exited"
  /\ tasks[i].pc = "fulfilled"
  /\ tasks' = [tasks EXCEPT ![i].pc = "done"]
  /\ running' = done(running).running
  /\ status' = done(running).status
  /\ resolves' = done(running).resolves
  /\ UNCHANGED <<pos, ended, curriculum, inputVars, prev, infoVars, dictVars>>

\* getChallengesForLang is called again, for the same language on the same
\* tree, after the first call resolved
CalledAgain ==
  /\ status = "resolved"
  /\ ~prev.set
  /\ prev' = [set |-> TRUE, curriculum |-> curriculum]
  /\ pos' = 0
  /\ ended' = FALSE
  /\ running' = InitialRunning
  /\ resolves' = 0
  /\ status' = "pending"
  /\ curriculum' = EmptyMap
  /\ tasks' = [i \in DOMAIN entries |-> NoTask]
  /\ UNCHANGED <<inputVars, infoVars, dictVars>>

----------------------------------------------------------------------------
\* The specifications.

\* one call of getChallengesForLang
Init == InfoIdle /\ DictIdle /\ BuildInit
Next ==
  \/ Data
  \/ End
  \/ \E i \in DOMAIN entries : HasEnglishSource(i)
  \/ \E i \in DOMAIN entries : Parsed(i)
  \/ \E i \in DOMAIN entries : ThenDone(i)
Spec == Init /\ [][Next]_vars

\* two calls of getChallengesForLang, one after the other
NextAgain == Next \/ CalledAgain
SpecAgain == Init /\ [][NextAgain]_vars

\* superBlockInfo on a directory name
InitInfo == InfoInit /\ DictIdle /\ BuildIdle
NextInfo == InfoApply
SpecInfo == InitInfo /\ [][NextInfo]_vars

\* createCommentMap on a dictionaries directory
InitDict == InfoIdle /\ DictInit /\ BuildIdle
NextDict == DictApply
SpecDict == InitDict /\ [][NextDict]_vars

----------------
\* Vocabulary of the properties, read from the tree and not from the code.

\* the entries the walker has handed to the 'data' handler
Emitted == 1..pos

\* the block directories and, for one of them, its challenge files
BlockDirs == {i \in DOMAIN entries : entries[i].depth = 2 /\ entries[i].isDir}
LeafEntries == {j \in DOMAIN entries : IsLeaf(entries[j])}
LeavesOf(i) == {j \in LeafEntries : ParentPath(entries[j].path) = entries[i].path}

\* the name after the first hyphen of a numbered directory name
NameOfDir(n) ==
  IF n # <<>> /\ Head(n) \in Digits
    THEN SubSeq(n, IndexOf(n, "-") + 1, Len(n)) ELSE n

\* the superblock key and the block key of a block directory
SuperKey(i) == NameOfDir(Split(entries[i].path, Sep)[1])
BlockKey(i) == entries[i].name

\* the block directory is left out as an upcoming change
UpcomingExcluded(i) == metaFlag[BlockKey(i)] = "true" /\ showUpcoming # "true"
\* the block directory is to be added
ToBeAdded(i) ==
  \/ metaFlag[BlockKey(i)] = "false"
  \/ metaFlag[BlockKey(i)] = "true" /\ showUpcoming = "true"

Registered(i) ==
  /\ SuperKey(i) \in DOMAIN curriculum
  /\ BlockKey(i) \in DOMAIN curriculum[SuperKey(i)].blocks

ChallengesOf(i) == curriculum[SuperKey(i)].blocks[BlockKey(i)].challenges

\* every challenge of the curriculum
AllChallenges ==
  UNION {UNION {Range(curriculum[sb].blocks[b].challenges) :
                  b \in DOMAIN curriculum[sb].blocks} : sb \in DOMAIN curriculum}

\* nothing is left to run: the process ended, or the walker ended and every
\* task was fulfilled and counted, or rejected
Settled ==
  \/ status = "exited"
  \/ ended /\ \A i \in DOMAIN tasks : tasks[i].pc \in {"done", "rejected"}

----------------------------------------------------------------------------
\* C1: the promise is resolved at most once, and only when 'end' has fired,
\* every entry's buildCurriculum task has completed and been counted by
\* done, and the counter is zero; never while a started task is outstanding.
C1_ResolvesOnceAfterAllTasks ==
  /\ resolves <= 1
  /\ (resolves > 0 \/ status = "resolved") =>
       /\ ended
       /\ running = 0
       /\ \A i \in DOMAIN tasks : tasks[i].pc = "done"

\* a build that resolved after a challenge file was parsed
C1_Witness ==
  /\ status = "resolved"
  /\ resolves = 1
  /\ \E i \in DOMAIN tasks : tasks[i].outcome = "challenge"

\* C2: a block whose meta has isUpcomingChange true, with the toggle not
\* 'true', is never registered, and its leaves are skipped without a parser
\* call and without an error, so that none of them is in the curriculum; a
\* block with isUpcomingChange false, or any block with a boolean flag when
\* the toggle is 'true', is registered, with no challenge before one of its
\* own leaves was parsed.
C2_UpcomingChangeBlocks ==
  \A i \in BlockDirs \cap Emitted :
    /\ UpcomingExcluded(i) =>
         /\ ~Registered(i)
         /\ \A j \in LeavesOf(i) \cap Emitted :
              /\ tasks[j].pc \in {"fulfilled", "done"}
              /\ tasks[j].outcome = "skipped"
              /\ tasks[j].calls = <<>>
              /\ tasks[j].error = NoFailure
         /\ \A j \in LeavesOf(i) :
              \A c \in AllChallenges : c.file # entries[j].path
    /\ ToBeAdded(i) =>
         /\ Registered(i)
         /\ (\A j \in LeavesOf(i) : tasks[j].outcome # "challenge") =>
              ChallengesOf(i) = <<>>

\* a resolved build that left out an upcoming-change block with a leaf
C2_Witness ==
  /\ status = "resolved"
  /\ \E i \in BlockDirs : UpcomingExcluded(i) /\ LeavesOf(i) # {}
  /\ \E i \in BlockDirs : ToBeAdded(i) /\ Registered(i)

\* C3: a leaf whose superblock or block is missing from the curriculum for
\* another reason than the upcoming-change exclusion ends the process: a
\* leaf is skipped silently only below an excluded block directory.
C3_MissingOwnerIsFatal ==
  \A j \in LeafEntries \cap Emitted :
    /\ tasks[j].pc = "exit" => status = "exited"
    /\ tasks[j].outcome = "skipped" =>
         \E i \in BlockDirs : j \in LeavesOf(i) /\ UpcomingExcluded(i)

\* C4: in a supported language other than English, createChallenge on a
\* leaf without an English file throws an error naming the leaf's path,
\* before any parser call; the error ends the build and the leaf's
\* challenge is never added.
C4_MissingEnglishIsFatal ==
  lang \in supportedLangs \ {"english"} =>
    \A j \in LeafEntries :
      ( /\ entries[j].path \in engMissing
        /\ tasks[j].pc \notin {"unstarted", "hasEnglishSource", "exit"}
        /\ tasks[j].outcome # "skipped" ) =>
          /\ tasks[j].pc = "rejected"
          /\ tasks[j].error = [kind |-> "missingEnglish", path |-> entries[j].path]
          /\ tasks[j].calls = <<>>
          /\ \A c \in AllChallenges : c.file # entries[j].path
          /\ status = "exited"

\* the file name ends in ".markdown"
HasMarkdownExtension(n) ==
  /\ Len(n) > 9
  /\ SubSeq(n, Len(n) - 8, Len(n)) = <<".", "m", "a", "r", "k", "d", "o", "w", "n">>

\* C5: a leaf with the markdown extension is parsed with parseMarkdown and
\* every other leaf with parseMD, whether createChallenge calls the parser
\* or parseTranslation does.
C5_ParserByExtension ==
  \A j \in DOMAIN tasks :
    \A k \in DOMAIN tasks[j].calls :
      tasks[j].calls[k].parser =
        IF HasMarkdownExtension(entries[j].name) THEN "parseMarkdown" ELSE "parseMD"

\* the challenges of a block are distinct
NoDuplicates(s) == \A k, l \in DOMAIN s : s[k] = s[l] => k = l

\* C8: under every interleaving of the leaf tasks, each leaf whose
\* createChallenge succeeded is exactly once in the challenges of its own
\* block, each block's list holds only challenges of its own leaves, and a
\* resolved build holds every leaf of every registered block.
C8_NoLostChallenge ==
  /\ \A i \in BlockDirs :
       Registered(i) =>
         /\ NoDuplicates(ChallengesOf(i))
         /\ \A c \in Range(ChallengesOf(i)) :
              \E j \in LeavesOf(i) :
                c.file = entries[j].path /\ tasks[j].outcome = "challenge"
         /\ \A j \in LeavesOf(i) :
              tasks[j].outcome = "challenge" =>
                \E k \in DOMAIN ChallengesOf(i) : ChallengesOf(i)[k].file = entries[j].path
         /\ status = "resolved" =>
              \A j \in LeavesOf(i) :
                \E k \in DOMAIN ChallengesOf(i) : ChallengesOf(i)[k].file = entries[j].path
  /\ \A c \in AllChallenges :
       \E i \in BlockDirs : \E j \in LeavesOf(i) : c.file = entries[j].path

\* a resolved build with two challenges in one block
C8_Witness ==
  /\ status = "resolved"
  /\ \E i \in BlockDirs : Registered(i) /\ Len(ChallengesOf(i)) = 2

\* C9: once a buildCurriculum task has thrown, the build ends with the end
\* of the process: it is not left with nothing to run and the process alive.
C9_ErrorsAreFatal ==
  ((\E i \in DOMAIN tasks : tasks[i].pc = "rejected") /\ Settled) =>
    status = "exited"

\* C10, as claimed: a second call on the same tree and language resolves
\* with the same curriculum as the first, the order of every block's
\* challenges included.
C10_SameCurriculum ==
  (prev.set /\ status = "resolved") => curriculum = prev.curriculum

\* C10, amended: a second call on the same tree and language resolves with
\* the same superblocks, orders, blocks and metas, and with the same
\* challenges in every block, in whatever order.
C10_SameUpToOrder ==
  (prev.set /\ status = "resolved") =>
    /\ DOMAIN curriculum = DOMAIN prev.curriculum
    /\ \A sb \in DOMAIN curriculum :
         LET now == curriculum[sb]
             was == prev.curriculum[sb]
         IN /\ now.order = was.order
            /\ now.superBlock = was.superBlock
            /\ DOMAIN now.blocks = DOMAIN was.blocks
            /\ \A b \in DOMAIN now.blocks :
                 /\ now.blocks[b].meta = was.blocks[b].meta
                 /\ Range(now.blocks[b].challenges) = Range(was.blocks[b].challenges)
                 /\ Len(now.blocks[b].challenges) = Len(was.blocks[b].challenges)

\* two calls that resolved with the challenges of a block in two orders
C10_Witness ==
  /\ prev.set
  /\ status = "resolved"
  /\ curriculum # prev.curriculum

----------------------------------------------------------------------------
\* The directory name as the naming convention reads it.

\* the position of the first hyphen, 0 when there is none
FirstHyphen(n) ==
  IF \E k \in DOMAIN n : n[k] = "-"
    THEN CHOOSE k \in DOMAIN n : n[k] = "-" /\ \A l \in 1..(k - 1) : n[l] # "-"
    ELSE 0

\* <order>-<name>: decimal digits, a hyphen, the name
HasOrderForm(n) ==
  /\ FirstHyphen(n) > 1
  /\ \A k \in 1..(FirstHyphen(n) - 1) : n[k] \in Digits

\* the number the digits d write in base ten
Decimal(d) ==
  LET v[k \in 0..Len(d)] == IF k = 0 THEN 0 ELSE v[k - 1] + DigitVal(d[k]) * 10 ^ (Len(d) - k)
  IN v[Len(d)]

\* the prefix before the first hyphen does not start a number
HasNonNumericPrefix(n) == n[1] \notin Digits

\* "coding-interview-prep"
NamePrep ==
  <<"c", "o", "d", "i", "n", "g", "-", "i", "n", "t", "e", "r", "v", "i", "e", "w",
    "-", "p", "r", "e", "p">>

\* C7: superBlockInfo gives a name <order>-<name> its integer order and the
\* name after the first hyphen, later hyphens kept ("08-coding-interview-prep"
\* gives 8 and "coding-interview-prep"), and a name with a non-numeric
\* prefix order 0 and the whole name ("extra"); the key a depth-1 directory
\* is registered under is the key superBlockInfoFromPath gives a path below
\* that directory.
C7_SuperBlockInfo ==
  infoOut.done =>
    /\ HasOrderForm(infoName) =>
         /\ infoOut.order = Decimal(SubSeq(infoName, 1, FirstHyphen(infoName) - 1))
         /\ infoOut.key = SubSeq(infoName, FirstHyphen(infoName) + 1, Len(infoName))
    /\ HasNonNumericPrefix(infoName) =>
         /\ infoOut.order = 0
         /\ infoOut.key = infoName
    /\ infoName = NameCodingInterviewPrep => infoOut.order = 8 /\ infoOut.key = NamePrep
    /\ infoName = NameExtra => infoOut.order = 0 /\ infoOut.key = NameExtra
    /\ infoOut.below = infoOut.key

\* superBlockInfo was applied to "08-coding-interview-prep"
C7_Witness ==
  /\ infoOut.done
  /\ infoName = NameCodingInterviewPrep
  /\ infoOut.below = NamePrep

----------------------------------------------------------------------------
\* The dictionaries as the properties read them.

\* the languages with a dictionary
DictLanguages == Range(dictLangs) \ {"english"}

\* language l has an entry with this id
HasTranslation(l, id) == \E e \in Range(dicts[l]) : e.id = id

\* the comments of the English list some language has no entry for
Untranslated ==
  {c \in Range(dictEnglish.translate) : \E l \in DictLanguages : ~HasTranslation(l, c.id)}

\* the comment's text is the text of no other comment of the English
\* lists
HasOwnText(k) ==
  /\ \A l \in DOMAIN dictEnglish.translate :
       dictEnglish.translate[l].text = dictEnglish.translate[k].text => l = k
  /\ dictEnglish.translate[k].text \notin Range(dictEnglish.keep)

\* createCommentMap fails exactly when some language has no entry with the
\* id of some comment of the English list, with an error naming the text
\* and id of such a comment, and then produces no map
FailsWhenUntranslated ==
  /\ commentMap.state = "threw" <=> Untranslated # {}
  /\ commentMap.state = "threw" =>
       /\ commentMap.map = EmptyMap
       /\ \E c \in Untranslated : commentMap.error = [text |-> c.text, id |-> c.id]

\* the map holds, under the text of comment k of the English list and for
\* every language, the text of an entry of that language with k's id
HoldsTranslation(k) ==
  LET c == dictEnglish.translate[k]
  IN /\ c.text \in DOMAIN commentMap.map
     /\ DOMAIN commentMap.map[c.text] = DictLanguages
     /\ \A l \in DictLanguages :
          \E e \in Range(dicts[l]) : e.id = c.id /\ e.text = commentMap.map[c.text][l]

\* every comment not to translate maps to its own text for every language
KeepsUntranslatable ==
  \A t \in Range(dictEnglish.keep) :
    /\ t \in DOMAIN commentMap.map
    /\ commentMap.map[t] = [l \in DictLanguages |-> t]

\* C6, as claimed: createCommentMap fails or returns a complete map: for
\* every comment of the English list and every language the map holds the
\* id-matched translation under the comment's text; a language without an
\* entry for a required id makes it fail with an error naming text and id,
\* and no map; every comment not to translate maps to its own text.
C6_CompleteMapOrError ==
  commentMap.state # "none" =>
    /\ FailsWhenUntranslated
    /\ commentMap.state = "returned" =>
         /\ \A k \in DOMAIN dictEnglish.translate : HoldsTranslation(k)
         /\ KeepsUntranslatable

\* C6, amended: as claimed, but the map holds the id-matched translation
\* only for a comment whose text no other comment of the English lists has.
C6_CompleteMapForOwnTexts ==
  commentMap.state # "none" =>
    /\ FailsWhenUntranslated
    /\ commentMap.state = "returned" =>
         /\ \A k \in DOMAIN dictEnglish.translate : HasOwnText(k) => HoldsTranslation(k)
         /\ KeepsUntranslatable

\* a map returned for two languages and two comments with texts of their own
C6_Witness ==
  /\ commentMap.state = "returned"
  /\ Cardinality(DictLanguages) = 2
  /\ Len(dictEnglish.translate) = 2
  /\ \A k \in DOMAIN dictEnglish.translate : HasOwnText(k)
  /\ dictEnglish.keep # <<>>

====
